---- MODULE Spec2Model ----
(***************************************************************************)
(* Cosmetics inventory tracker (myapp): the expiration calculator of       *)
(* CosmeticProduct (models.py) and the product list query of               *)
(* CosmeticProductListView (views.py).                                     *)
(*                                                                         *)
(* Dates are whole days, written as integers (the day number).  A nullable *)
(* field is a sequence: <<>> is Python's None, <<v>> the value v.          *)
(* A property that raises is the record Raise(exception name).             *)
(*                                                                         *)
(* models.py defines class CosmeticProduct twice (lines 44 and 219); the   *)
(* calculator properties modelled here are those of the first definition,  *)
(* lines 114-178, the only one that has them.                              *)
(*                                                                         *)
(* SpecCalc applies the calculator to one in-memory instance, its fields   *)
(* drawn from the bounds, null fields included.  Spec is the application:  *)
(* products are created through the create view, listed through the list   *)
(* view and shown by the detail view, one request at a time.  SpecTier     *)
(* classifies one raw expiration date by the list filter, the dashboard    *)
(* count, the manager and the calculator.  SpecSearch runs the search of   *)
(* the list view on small tables.  SpecCrud creates and deletes brands,    *)
(* categories, products and usage logs under the on_delete rules.          *)
(* SpecEdit is the application with the update and delete views.  SpecPage *)
(* asks the list view for every page of collections of up to MaxItems      *)
(* products.  SpecForm is the create, update and delete views of           *)
(* views-checkpoint.py, which default pao_after_opening.  SpecDash lists   *)
(* by status on every day and date.  SpecClock lets the days pass over one *)
(* instance.                                                               *)
(***************************************************************************)
EXTENDS Integers, Sequences, FiniteSets, TLC

VARIABLES
    today,      \* date.today(): the clock
    instance,   \* the CosmeticProduct instance the calculator is evaluated on
    out,        \* what the calculator's four properties gave on instance
    products,   \* the CosmeticProduct table: product id -> row, or NoRow
    response,   \* the last response of the list view
    brands,     \* the Brand table: rows [id, name]
    categories, \* the Category table: rows [id, name]
    usage_logs, \* the UsageLog table: rows [id, product]
    sequences   \* the last id given out, by table

vars == <<today, instance, out, products, response,
          brands, categories, usage_logs, sequences>>

\* the tables next to the product table
tables == <<brands, categories, usage_logs>>

----------------------------------------------------------------------------
(* Bounds of the model *)

MaxDay == 1         \* the clock runs over days 0..MaxDay
MaxExp == 32        \* expiration dates of calculator inputs: day -2..MaxExp
OpenedBack == 100   \* opened dates of calculator inputs: day -OpenedBack..1
MaxPao == 3         \* pao_after_opening of calculator inputs: 0..MaxPao months
MaxProducts == 2    \* product ids the sequence gives out

(* Program constants *)

PaoDays == 30       \* timedelta(days=self.pao_after_opening * 30)
UrgentDays == 7     \* elif days <= 7 / today + timedelta(days=7)
SoonDays == 30      \* elif days <= 30 / today + timedelta(days=30)
SoonFrom == 8       \* today + timedelta(days=8) of get_soon_expiring_products

----------------------------------------------------------------------------
(* Nullable values and raised exceptions *)

None == <<>>
Some(v) == <<v>>
IsNone(x) == x = None
Val(x) == x[1]

Ok(v) == [exc |-> "", val |-> v]
Raise(e) == [exc |-> e, val |-> None]
Raised(r) == r.exc # ""

Min(a, b) == IF a <= b THEN a ELSE b

OPEN_STATUS == {"unopened", "opened", "finished", "discarded"}

----------------------------------------------------------------------------
(* CosmeticProduct's calculator properties, models.py 134-178.             *)
(* p is the instance (expiration_date, status, opened_date,                *)
(* pao_after_opening), t is date.today().                                  *)

\* min(self.expiration_date, pao_expiry) with max in its place
effective_expiration_date_max(p) ==
    IF p.status = "opened" /\ ~IsNone(p.opened_date)
    THEN IF IsNone(p.pao_after_opening) THEN Raise("TypeError")
         ELSE IF IsNone(p.expiration_date) THEN Raise("TypeError")
         ELSE LET pao_expiry == Val(p.opened_date) + Val(p.pao_after_opening) * PaoDays
              IN  Ok(Some(IF Val(p.expiration_date) >= pao_expiry
                          THEN Val(p.expiration_date) ELSE pao_expiry))
    ELSE Ok(p.expiration_date)

\* the PAO rule applied whatever the open status
effective_expiration_date_anystatus(p) ==
    IF ~IsNone(p.opened_date)
    THEN IF IsNone(p.pao_after_opening) THEN Raise("TypeError")
         ELSE IF IsNone(p.expiration_date) THEN Raise("TypeError")
         ELSE LET pao_expiry == Val(p.opened_date) + Val(p.pao_after_opening) * PaoDays
              IN  Ok(Some(Min(Val(p.expiration_date), pao_expiry)))
    ELSE Ok(p.expiration_date)

\* if self.status == 'opened' and self.opened_date:
\*     pao_expiry = self.opened_date + timedelta(days=self.pao_after_opening * 30)
\*     return min(self.expiration_date, pao_expiry)
\* return self.expiration_date
\* None * 30 raises TypeError; min(None, date) raises TypeError.
effective_expiration_date(p) ==
    IF p.status = "opened" /\ ~IsNone(p.opened_date)
    THEN IF IsNone(p.pao_after_opening) THEN Raise("TypeError")
         ELSE IF IsNone(p.expiration_date) THEN Raise("TypeError")
         ELSE LET pao_expiry == Val(p.opened_date) + Val(p.pao_after_opening) * PaoDays
              IN  Ok(Some(Min(Val(p.expiration_date), pao_expiry)))
    ELSE Ok(p.expiration_date)

\* delta = date.today() - effective_date, the operands swapped
days_until_expiration_swapped(p, t) ==
    LET effective_date == effective_expiration_date(p)
    IN  IF Raised(effective_date) THEN effective_date
        ELSE IF IsNone(effective_date.val) THEN Ok(None)
        ELSE Ok(Some(t - Val(effective_date.val)))

\* effective_date = self.effective_expiration_date
\* if effective_date is None: return None
\* delta = effective_date - date.today(); return delta.days
days_until_expiration(p, t) ==
    LET effective_date == effective_expiration_date(p)
    IN  IF Raised(effective_date) THEN effective_date
        ELSE IF IsNone(effective_date.val) THEN Ok(None)
        ELSE Ok(Some(Val(effective_date.val) - t))

\* elif days < 7 in place of elif days <= 7
expiration_status_lt7(p, t) ==
    LET effective_date == effective_expiration_date(p)
        d == days_until_expiration(p, t)
    IN  IF Raised(effective_date) THEN effective_date
        ELSE IF IsNone(effective_date.val) THEN Ok("unknown")
        ELSE LET days == Val(d.val)
             IN  IF days < 0 THEN Ok("expired")
                 ELSE IF days < UrgentDays THEN Ok("urgent")
                 ELSE IF days <= SoonDays THEN Ok("soon")
                 ELSE Ok("good")

\* if self.effective_expiration_date is None: return "unknown"
\* days = self.days_until_expiration
\* if days < 0: "expired" elif days <= 7: "urgent" elif days <= 30: "soon"
\* else: "good"
expiration_status(p, t) ==
    LET effective_date == effective_expiration_date(p)
        d == days_until_expiration(p, t)
    IN  IF Raised(effective_date) THEN effective_date
        ELSE IF IsNone(effective_date.val) THEN Ok("unknown")
        ELSE LET days == Val(d.val)
             IN  IF days < 0 THEN Ok("expired")
                 ELSE IF days <= UrgentDays THEN Ok("urgent")
                 ELSE IF days <= SoonDays THEN Ok("soon")
                 ELSE Ok("good")

\* status_priority = {"expired": 1, "urgent": 2, "soon": 3, "good": 4, "unknown": 5}
status_priority ==
    [s \in {"expired", "urgent", "soon", "good", "unknown"} |->
        CASE s = "expired" -> 1
          [] s = "urgent" -> 2
          [] s = "soon" -> 3
          [] s = "good" -> 4
          [] s = "unknown" -> 5]

\* the keys "soon" and "good" exchanged
expiration_priority_swapped(p, t) ==
    LET st == expiration_status(p, t)
    IN  IF Raised(st) THEN st
        ELSE IF st.val = "soon" THEN Ok(status_priority["good"])
        ELSE IF st.val = "good" THEN Ok(status_priority["soon"])
        ELSE Ok(status_priority[st.val])

\* return status_priority.get(self.expiration_status, 5)
expiration_priority(p, t) ==
    LET st == expiration_status(p, t)
    IN  IF Raised(st) THEN st
        ELSE IF st.val \in DOMAIN status_priority
             THEN Ok(status_priority[st.val])
             ELSE Ok(5)

\* is_expired, models.py 121-132 (the second definition of the property,
\* which replaces that of lines 114-119):
\* if self.expiration_date is None: return False
\* if self.status == 'opened' and self.opened_date:
\*     return date.today() > min(self.expiration_date, pao_expiry)
\* return date.today() > self.expiration_date
is_expired(p, t) ==
    IF IsNone(p.expiration_date) THEN Ok(FALSE)
    ELSE IF p.status = "opened" /\ ~IsNone(p.opened_date)
    THEN IF IsNone(p.pao_after_opening) THEN Raise("TypeError")
         ELSE LET pao_expiry == Val(p.opened_date) + Val(p.pao_after_opening) * PaoDays
              IN  Ok(t > Min(Val(p.expiration_date), pao_expiry))
    ELSE Ok(t > Val(p.expiration_date))

\* absolute_value, custom_filters.py 8-15: abs(value)
absolute_value(value) == IF value < 0 THEN 0 - value ELSE value

\* get_expiry_status with "if abs_value < 0" for the expired tier
get_expiry_status_abs(value) ==
    IF IsNone(value) THEN "unknown"
    ELSE LET abs_value == absolute_value(Val(value))
         IN  IF abs_value < 0 THEN "expired"
             ELSE IF abs_value <= UrgentDays THEN "urgent"
             ELSE IF abs_value <= SoonDays THEN "soon"
             ELSE "good"

\* get_expiry_status, custom_filters.py 18-34: the tier of a number of days
\* (None or a number); the sign is taken from the value, the size from its
\* absolute value
get_expiry_status(value) ==
    IF IsNone(value) THEN "unknown"
    ELSE LET abs_value == absolute_value(Val(value))
         IN  IF Val(value) < 0 THEN "expired"
             ELSE IF abs_value <= UrgentDays THEN "urgent"
             ELSE IF abs_value <= SoonDays THEN "soon"
             ELSE "good"

\* {{ product.days_until_expiration|get_expiry_status }}
expiry_status_badge(p, t) ==
    LET days == days_until_expiration(p, t)
    IN  IF Raised(days) THEN days ELSE Ok(get_expiry_status(days.val))

----------------------------------------------------------------------------
(* The calculator applied to one instance: computeExpiration(product,      *)
(* today) reads the four properties, is_expired, and the tier the template *)
(* filter get_expiry_status gives for the number of days.                  *)

NotComputed == [done |-> FALSE]

Computed(p, t) ==
    [done |-> TRUE,
     at |-> t,
     effective |-> effective_expiration_date(p),
     days |-> days_until_expiration(p, t),
     status |-> expiration_status(p, t),
     priority |-> expiration_priority(p, t),
     is_expired |-> is_expired(p, t),
     badge |-> expiry_status_badge(p, t)]

ExpDates == (0 - 2) .. MaxExp
OpenedDates == (0 - OpenedBack) .. 1
PaoValues == 0 .. MaxPao
Opt(S) == {None} \cup {Some(v) : v \in S}

Instances ==
    [expiration_date : Opt(ExpDates),
     status : OPEN_STATUS,
     opened_date : Opt(OpenedDates),
     pao_after_opening : Opt(PaoValues)]

----------------------------------------------------------------------------
(* Text: a string is the sequence of its characters.                       *)

Lower(ch) == CASE ch = "A" -> "a" [] ch = "B" -> "b" [] OTHER -> ch
LowerText(s) == [i \in DOMAIN s |-> Lower(s[i])]

\* field__icontains=q: q is a case-insensitive substring of text
IContains(text, q) ==
    \E i \in 0 .. (Len(text) - Len(q)) :
        SubSeq(LowerText(text), i + 1, i + Len(q)) = LowerText(q)

----------------------------------------------------------------------------
(* The tables.  Every model has Django's implicit AutoField id: a new row  *)
(* gets the next id of its table and no id is given out twice.             *)

Users == {"alice", "bob"}

\* the brand names and the category names in use
BrandName == <<  <<"A", "b">>,  <<"b">>  >>
CategoryName == <<  <<"a">>,  <<"B", "a">>  >>

\* the Brand and Category tables after the names were inserted in the order
\* of BrandName and CategoryName: the i-th name has id i
AllBrands == {[id |-> i, name |-> BrandName[i]] : i \in DOMAIN BrandName}
AllCategories == {[id |-> i, name |-> CategoryName[i]] : i \in DOMAIN CategoryName}

\* the primary keys of the rows of a Brand or Category table
Pks(table) == {r.id : r \in table}

NoRow == [id |-> 0]
NoResponse == [kind |-> "none"]

Rows(table) == {table[i] : i \in DOMAIN table} \ {NoRow}

\* the highest of the ids, 0 when there is none
LastId(ids) == IF ids = {} THEN 0 ELSE CHOOSE n \in ids : \A i \in ids : i <= n

\* the sequences of a database that holds the given product, brand and
\* category tables and no usage log: the last id given out by a table is the
\* highest id in it
SequencesOf(table, brand_table, category_table) ==
    [product |-> LastId({r.id : r \in Rows(table)}),
     brand |-> LastId(Pks(brand_table)),
     category |-> LastId(Pks(category_table)),
     usage_log |-> 0]

\* The form contents the create view is given: expiration dates on both
\* sides of every tier boundary of day 0, and two fillings of the rest of
\* the form: an unopened product, and a product opened 40 days before day
\* 0 with a PAO of one month.
FormExpirationDates == {0 - 1, 0, 7, 8, 30, 31}

FormRest ==
    { [name |-> <<"a", "b">>, brand |-> 1, category |-> Some(1), shade |-> <<>>,
       status |-> "unopened", opened_date |-> None, pao_after_opening |-> Some(12)],
      [name |-> <<"B">>, brand |-> 2, category |-> Some(2), shade |-> <<"a", "A">>,
       status |-> "opened", opened_date |-> Some(0 - 40), pao_after_opening |-> Some(1)] }

\* request.GET values
StatusParams == {"", "expired", "urgent", "soon", "good", "unknown"}
CategoryParams == {"", "1", "9", "x"}
SearchParams == { <<>>, <<"A", "B">>, <<"b", "a">> }

\* int(value) of a category_id lookup value; None when it is not a number
ParseId(s) ==
    CASE s = "1" -> Some(1)
      [] s = "2" -> Some(2)
      [] s = "9" -> Some(9)
      [] OTHER -> None

----------------------------------------------------------------------------
(* CosmeticProductListView.get_queryset, views.py 37-77 *)

\* the queryset not restricted to the requesting user
UserFilter_all(rows, user) == rows

\* CosmeticProduct.objects.filter(user=self.request.user)
UserFilter(rows, user) == {r \in rows : r.user = user}

\* the tier ranges applied to the PAO-adjusted date
StatusFilter_effective(qs, status_filter, t) ==
    LET eff(r) == Val(effective_expiration_date(r).val)
    IN  IF status_filter = "expired" THEN {r \in qs : eff(r) < t}
        ELSE IF status_filter = "urgent"
            THEN {r \in qs : eff(r) >= t /\ eff(r) <= t + UrgentDays}
        ELSE IF status_filter = "soon"
            THEN {r \in qs : eff(r) > t + UrgentDays /\ eff(r) <= t + SoonDays}
        ELSE IF status_filter = "good" THEN {r \in qs : eff(r) > t + SoonDays}
        ELSE qs

\* a final "else: queryset.none()" for a status value that names no tier
StatusFilter_strict(qs, status_filter, t) ==
    LET exp(r) == Val(r.expiration_date)
    IN  IF status_filter = "" THEN qs
        ELSE IF status_filter = "expired" THEN {r \in qs : exp(r) < t}
        ELSE IF status_filter = "urgent"
            THEN {r \in qs : exp(r) >= t /\ exp(r) <= t + UrgentDays}
        ELSE IF status_filter = "soon"
            THEN {r \in qs : exp(r) > t + UrgentDays /\ exp(r) <= t + SoonDays}
        ELSE IF status_filter = "good" THEN {r \in qs : exp(r) > t + SoonDays}
        ELSE {}

\* the soon tier from expiration_date__gte=today + timedelta(days=7)
StatusFilter_soon_gte(qs, status_filter, t) ==
    LET exp(r) == Val(r.expiration_date)
    IN  IF status_filter = "expired" THEN {r \in qs : exp(r) < t}
        ELSE IF status_filter = "urgent"
            THEN {r \in qs : exp(r) >= t /\ exp(r) <= t + UrgentDays}
        ELSE IF status_filter = "soon"
            THEN {r \in qs : exp(r) >= t + UrgentDays /\ exp(r) <= t + SoonDays}
        ELSE IF status_filter = "good" THEN {r \in qs : exp(r) > t + SoonDays}
        ELSE qs

\* if status_filter: ... expiration_date__lt / __gte / __lte / __gt
\* (a NULL expiration_date satisfies no comparison)
StatusFilter(qs, status_filter, t) ==
    LET has(r) == ~IsNone(r.expiration_date)
        exp(r) == Val(r.expiration_date)
    IN  IF status_filter = "" THEN qs
        ELSE IF status_filter = "expired"
            THEN {r \in qs : has(r) /\ exp(r) < t}
        ELSE IF status_filter = "urgent"
            THEN {r \in qs : has(r) /\ exp(r) >= t /\ exp(r) <= t + UrgentDays}
        ELSE IF status_filter = "soon"
            THEN {r \in qs : has(r) /\ exp(r) > t + UrgentDays
                                    /\ exp(r) <= t + SoonDays}
        ELSE IF status_filter = "good"
            THEN {r \in qs : has(r) /\ exp(r) > t + SoonDays}
        ELSE qs

\* if category_filter: queryset.filter(category_id=category_filter)
\* (a value that is not a number raises ValueError)
CategoryFilter(qs, category_filter) ==
    IF category_filter = "" THEN Ok(qs)
    ELSE IF IsNone(ParseId(category_filter)) THEN Raise("ValueError")
    ELSE Ok({r \in qs : r.category = ParseId(category_filter)})

\* the category join as an inner join: a row with no category is dropped
SearchFilter_inner(qs, search_query) ==
    IF search_query = <<>> THEN qs
    ELSE {r \in qs :
            /\ ~IsNone(r.category)
            /\ \/ IContains(r.name, search_query)
               \/ \E b \in brands :
                     b.id = r.brand /\ IContains(b.name, search_query)
               \/ \E c \in categories :
                     c.id = Val(r.category) /\ IContains(c.name, search_query)
               \/ IContains(r.shade, search_query)}

\* the search without Q(brand__name__icontains=search_query)
SearchFilter_nobrand(qs, search_query) ==
    IF search_query = <<>> THEN qs
    ELSE {r \in qs :
            \/ IContains(r.name, search_query)
            \/ /\ ~IsNone(r.category)
               /\ \E c \in categories :
                     c.id = Val(r.category) /\ IContains(c.name, search_query)
            \/ IContains(r.shade, search_query)}

\* if search_query: Q(name__icontains) | Q(brand__name__icontains) |
\*                  Q(category__name__icontains) | Q(shade__icontains)
\* brand__name and category__name are the names of the rows of the Brand
\* and Category tables that the product's foreign keys point at
SearchFilter(qs, search_query) ==
    IF search_query = <<>> THEN qs
    ELSE {r \in qs :
            \/ IContains(r.name, search_query)
            \/ \E b \in brands :
                  b.id = r.brand /\ IContains(b.name, search_query)
            \/ /\ ~IsNone(r.category)
               /\ \E c \in categories :
                     c.id = Val(r.category) /\ IContains(c.name, search_query)
            \/ IContains(r.shade, search_query)}

\* order_by('-expiration_date'): descending
RECURSIVE order_by_desc(_)
order_by_desc(qs) ==
    IF qs = {} THEN {<<>>}
    ELSE LET firsts == {r \in qs : \A o \in qs :
                           Val(r.expiration_date) >= Val(o.expiration_date)}
         IN  UNION {{<<r>> \o rest : rest \in order_by_desc(qs \ {r})} :
                       r \in firsts}

\* order_by('expiration_date'): every order of the rows that ascends in
\* expiration_date; the order of rows with equal dates is the database's.
\* The first row is any row with the least date, the rest follow in order.
RECURSIVE order_by(_)
order_by(qs) ==
    IF qs = {} THEN {<<>>}
    ELSE LET firsts == {r \in qs : \A o \in qs :
                           Val(r.expiration_date) <= Val(o.expiration_date)}
         IN  UNION {{<<r>> \o rest : rest \in order_by(qs \ {r})} :
                       r \in firsts}

\* the rows get_queryset selects, before the ordering
get_queryset(rows, user, GET, t) ==
    LET queryset == StatusFilter(UserFilter(rows, user), GET.status, t)
        filtered == CategoryFilter(queryset, GET.category)
    IN  IF Raised(filtered) THEN filtered
        ELSE Ok(SearchFilter(filtered.val, GET.search))

\* CosmeticProductListView.get_context_data, views.py 79-109: the counts
\* soon_count from expiration_date__gte=today + timedelta(days=7)
get_context_data_soon_gte(rows, user, t) ==
    LET all_products == {r \in rows : r.user = user}
        exp(r) == Val(r.expiration_date)
    IN  [expired_count |-> Cardinality({r \in all_products : exp(r) < t}),
         urgent_count |-> Cardinality({r \in all_products :
                              exp(r) >= t /\ exp(r) <= t + UrgentDays}),
         soon_count |-> Cardinality({r \in all_products :
                              exp(r) >= t + UrgentDays /\ exp(r) <= t + SoonDays}),
         good_count |-> Cardinality({r \in all_products : exp(r) > t + SoonDays}),
         total_count |-> Cardinality(all_products)]

\* all_products = CosmeticProduct.objects.all() in place of filter(user=user)
get_context_data_all(rows, user, t) ==
    LET exp(r) == Val(r.expiration_date)
    IN  [expired_count |-> Cardinality({r \in rows : exp(r) < t}),
         urgent_count |-> Cardinality({r \in rows :
                              exp(r) >= t /\ exp(r) <= t + UrgentDays}),
         soon_count |-> Cardinality({r \in rows :
                              exp(r) > t + UrgentDays /\ exp(r) <= t + SoonDays}),
         good_count |-> Cardinality({r \in rows : exp(r) > t + SoonDays}),
         total_count |-> Cardinality(rows)]

get_context_data(rows, user, t) ==
    LET all_products == {r \in rows : r.user = user}
        exp(r) == Val(r.expiration_date)
    IN  [expired_count |-> Cardinality({r \in all_products : exp(r) < t}),
         urgent_count |-> Cardinality({r \in all_products :
                              exp(r) >= t /\ exp(r) <= t + UrgentDays}),
         soon_count |-> Cardinality({r \in all_products :
                              exp(r) > t + UrgentDays /\ exp(r) <= t + SoonDays}),
         good_count |-> Cardinality({r \in all_products : exp(r) > t + SoonDays}),
         total_count |-> Cardinality(all_products)]

----------------------------------------------------------------------------
(* CosmeticProductManager, models.py 181-217.  user is None or Some(user). *)

\* if user: queryset = queryset.filter(user=user)
ManagerUser(qs, user) ==
    IF IsNone(user) THEN qs ELSE {r \in qs : r.user = Val(user)}

\* self.filter(expiration_date__lt=date.today())
get_expired_products(rows, user, t) ==
    ManagerUser({r \in rows : ~IsNone(r.expiration_date)
                              /\ Val(r.expiration_date) < t}, user)

\* expiration_date__gte=today, expiration_date__lte=today + timedelta(days=7)
get_urgent_products(rows, user, t) ==
    ManagerUser({r \in rows : ~IsNone(r.expiration_date)
                              /\ Val(r.expiration_date) >= t
                              /\ Val(r.expiration_date) <= t + UrgentDays}, user)

\* the lower bound today + timedelta(days=7) in place of days=8
get_soon_expiring_products_from7(rows, user, t) ==
    ManagerUser({r \in rows : ~IsNone(r.expiration_date)
                              /\ Val(r.expiration_date) >= t + UrgentDays
                              /\ Val(r.expiration_date) <= t + SoonDays}, user)

\* expiration_date__gte=today + timedelta(days=8),
\* expiration_date__lte=today + timedelta(days=30)
get_soon_expiring_products(rows, user, t) ==
    ManagerUser({r \in rows : ~IsNone(r.expiration_date)
                              /\ Val(r.expiration_date) >= t + SoonFrom
                              /\ Val(r.expiration_date) <= t + SoonDays}, user)

\* expiration_date__gt=today + timedelta(days=30)
get_good_products(rows, user, t) ==
    ManagerUser({r \in rows : ~IsNone(r.expiration_date)
                              /\ Val(r.expiration_date) > t + SoonDays}, user)

----------------------------------------------------------------------------
(* CustomPaginatorListView.paginate_queryset, views.py 11-29, and the      *)
(* Paginator of django.core.paginator it drives.                           *)

\* paginate_by = 10
PaginateBy == 10

\* the page parameter of the query string: None when the request has none
PageParams ==
    {None} \cup {Some(s) : s \in {"", "x", "1.5", "-1", "0", "1", "2", "3", "4"}}

\* int(number): None when the text is not an integer (ValueError)
ParseInt(s) ==
    CASE s = "-1" -> Some(0 - 1)
      [] s = "0" -> Some(0)
      [] s = "1" -> Some(1)
      [] s = "2" -> Some(2)
      [] s = "3" -> Some(3)
      [] s = "4" -> Some(4)
      [] OTHER -> None

\* Paginator.num_pages with allow_empty_first_page and no orphans
num_pages(count, per_page) ==
    IF count = 0 THEN 1 ELSE (count + per_page - 1) \div per_page

\* Paginator.page(number), n being int(number), or None when number is not
\* an integer: the page, or the exception PageNotAnInteger or EmptyPage
page(object_list, per_page, n) ==
    LET last == num_pages(Len(object_list), per_page)
    IN  IF IsNone(n) THEN Raise("PageNotAnInteger")
        ELSE IF Val(n) < 1 THEN Raise("EmptyPage")
        ELSE IF Val(n) > last THEN Raise("EmptyPage")
        ELSE LET bottom == (Val(n) - 1) * per_page
                 top == Min(bottom + per_page, Len(object_list))
             IN  Ok([number |-> Val(n), num_pages |-> last,
                     object_list |-> SubSeq(object_list, bottom + 1, top),
                     has_other_pages |-> last > 1])

\* paginate_queryset without "except EmptyPage"
paginate_queryset_strict(queryset, page_size, param) ==
    LET number == IF IsNone(param) THEN Some(1) ELSE ParseInt(Val(param))
        page_obj == page(queryset, page_size, number)
    IN  IF ~Raised(page_obj) THEN page_obj
        ELSE IF page_obj.exc = "PageNotAnInteger" THEN page(queryset, page_size, Some(1))
        ELSE page_obj

\* page = self.request.GET.get('page', 1); try paginator.page(page);
\* except PageNotAnInteger: page 1; except EmptyPage: page num_pages
paginate_queryset(queryset, page_size, param) ==
    LET number == IF IsNone(param) THEN Some(1) ELSE ParseInt(Val(param))
        page_obj == page(queryset, page_size, number)
    IN  IF ~Raised(page_obj) THEN page_obj
        ELSE IF page_obj.exc = "PageNotAnInteger" THEN page(queryset, page_size, Some(1))
        ELSE page(queryset, page_size,
                  Some(num_pages(Len(queryset), page_size)))

----------------------------------------------------------------------------
(* The requests *)

Init ==
    /\ today = 0
    /\ instance = [expiration_date |-> None, status |-> "unopened",
                   opened_date |-> None, pao_after_opening |-> None]
    /\ out = NotComputed
    /\ products = [i \in 1 .. MaxProducts |-> NoRow]
    /\ response = NoResponse
    /\ brands = AllBrands /\ categories = AllCategories /\ usage_logs = {}
    /\ sequences = SequencesOf(products, brands, categories)

\* form_valid without "form.instance.user = self.request.user": the owner
\* is whatever the instance had, here always alice
CreateProduct_owner_unset(user, exp, rest) ==
    LET id == sequences.product + 1
    IN  /\ response = NoResponse
        /\ id <= MaxProducts
        /\ sequences' = [sequences EXCEPT !.product = id]
        /\ products' = [products EXCEPT ![id] =
              [id |-> id, user |-> "alice", expiration_date |-> Some(exp),
               name |-> rest.name, brand |-> rest.brand,
               category |-> rest.category, shade |-> rest.shade,
               status |-> rest.status, opened_date |-> rest.opened_date,
               pao_after_opening |-> rest.pao_after_opening]]
        /\ response' = [kind |-> "redirect", view |-> "create", user |-> user,
                         pk |-> id]
        /\ UNCHANGED <<today, instance, out, tables>>

\* CosmeticProductCreateView.form_valid, views.py 151-154: the row is saved
\* with the requesting user as its owner and the next id of the AutoField:
\* one more than the last id given out, never the id of a deleted row
CreateProduct(user, exp, rest) ==
    LET id == sequences.product + 1
    IN  /\ response = NoResponse
        /\ id <= MaxProducts
        /\ sequences' = [sequences EXCEPT !.product = id]
        /\ products' = [products EXCEPT ![id] =
              [id |-> id, user |-> user, expiration_date |-> Some(exp),
               name |-> rest.name, brand |-> rest.brand,
               category |-> rest.category, shade |-> rest.shade,
               status |-> rest.status, opened_date |-> rest.opened_date,
               pao_after_opening |-> rest.pao_after_opening]]
        /\ response' = [kind |-> "redirect", view |-> "create", user |-> user,
                         pk |-> id]
        /\ UNCHANGED <<today, instance, out, tables>>

\* GET of the product list by user with the given query string,
\* CosmeticProductListView of views.py 32-109: get_queryset filters and
\* orders the rows, paginate_queryset (views.py 15-29, paginate_by = 10)
\* takes the page GET.page asks for, and get_context_data adds the counts.
\* queryset is the whole ordered result of get_queryset, items the rows of
\* the page (the "products" of the context).
ListRequest(user, GET) ==
    LET qs == get_queryset(Rows(products), user, GET, today)
    IN  /\ response = NoResponse
        /\ IF Raised(qs)
           THEN response' = [kind |-> "error", user |-> user, GET |-> GET,
                             exc |-> qs.exc]
           ELSE \E queryset \in order_by(qs.val) :
                  LET page_obj == paginate_queryset(queryset, PaginateBy, GET.page)
                  IN  response' =
                        IF Raised(page_obj)
                        THEN [kind |-> "error", user |-> user, GET |-> GET,
                              exc |-> page_obj.exc]
                        ELSE [kind |-> "list", user |-> user, GET |-> GET,
                              at |-> today, queryset |-> queryset,
                              items |-> page_obj.val.object_list,
                              number |-> page_obj.val.number,
                              num_pages |-> page_obj.val.num_pages,
                              is_paginated |-> page_obj.val.has_other_pages,
                              counts |-> get_context_data(Rows(products),
                                                          user, today)]
        /\ UNCHANGED <<today, instance, out, products, tables, sequences>>

\* get_object over CosmeticProduct.objects.all(): the row with the primary
\* key pk, whoever owns it
get_object_any(rows, user, pk) ==
    LET found == {r \in rows : r.id = pk}
    IN  IF found = {} THEN Raise("Http404")
        ELSE Ok(CHOOSE r \in found : TRUE)

\* CosmeticProductDetailView.get_object, views.py 116-130: the row with the
\* primary key pk among the rows of the user, or Http404
get_object(rows, user, pk) ==
    LET found == {r \in UserFilter(rows, user) : r.id = pk}
    IN  IF found = {} THEN Raise("Http404")
        ELSE Ok(CHOOSE r \in found : TRUE)

\* CosmeticProductDetailView.get_context_data, views.py 132-138
detail_get_context_data(product) ==
    [product |-> product, debug_product_id |-> product.id]

\* CosmeticProductDetailView.get_context_data of the earlier revision,
\* views-checkpoint.py 138-177: days and status from the raw expiration_date
detail_get_context_data_checkpoint(product, t) ==
    IF ~IsNone(product.expiration_date)
    THEN LET days == Val(product.expiration_date) - t
         IN  IF days < 0
             THEN [product |-> product,
                   days_until_expiration |-> Some(days),
                   expiration_status |-> "expired",
                   status_class |-> "danger",
                   status_icon |-> "fa-times-circle",
                   status_text |-> <<"Expired", 0 - days,
                                     "days ago">>]
             ELSE IF days <= UrgentDays
             THEN [product |-> product,
                   days_until_expiration |-> Some(days),
                   expiration_status |-> "urgent",
                   status_class |-> "warning",
                   status_icon |-> "fa-exclamation-triangle",
                   status_text |-> <<days,
                                     "days until expiration - URGENT">>]
             ELSE IF days <= SoonDays
             THEN [product |-> product,
                   days_until_expiration |-> Some(days),
                   expiration_status |-> "soon",
                   status_class |-> "info",
                   status_icon |-> "fa-clock",
                   status_text |-> <<days,
                                     "days until expiration - SOON">>]
             ELSE [product |-> product,
                   days_until_expiration |-> Some(days),
                   expiration_status |-> "good",
                   status_class |-> "success",
                   status_icon |-> "fa-check-circle",
                   status_text |-> <<days,
                                     "days until expiration - GOOD">>]
    ELSE [product |-> product,
          days_until_expiration |-> None,
          expiration_status |-> "unknown",
          status_class |-> "secondary",
          status_icon |-> "fa-question-circle",
          status_text |-> <<"Expiration date not set">>]

\* GET /product/pk/ served by views.py
DetailRequest(user, pk) ==
    LET obj == get_object(Rows(products), user, pk)
    IN  /\ response = NoResponse
        /\ response' =
              IF Raised(obj)
              THEN [kind |-> "notfound", view |-> "detail", user |-> user,
                    pk |-> pk, exc |-> obj.exc]
              ELSE [kind |-> "detail", view |-> "detail", user |-> user,
                    pk |-> pk, at |-> today,
                    context |-> detail_get_context_data(obj.val)]
        /\ UNCHANGED <<today, instance, out, products, tables, sequences>>

\* GET /product/pk/ served by the revision of views-checkpoint.py
DetailRequestCheckpoint(user, pk) ==
    LET obj == get_object(Rows(products), user, pk)
    IN  /\ response = NoResponse
        /\ response' =
              IF Raised(obj)
              THEN [kind |-> "notfound", view |-> "detail", user |-> user,
                    pk |-> pk, exc |-> obj.exc]
              ELSE [kind |-> "detail", view |-> "detail", user |-> user,
                    pk |-> pk, at |-> today,
                    context |-> detail_get_context_data_checkpoint(obj.val,
                                                                   today)]
        /\ UNCHANGED <<today, instance, out, products, tables, sequences>>

\* POST /pk/edit/ with a valid form, CosmeticProductUpdateView, views.py
\* 156-172: the row of the user with that pk is saved with the form's
\* fields (user is not a form field), or Http404
UpdateRequest(user, pk, exp, rest) ==
    LET obj == get_object(Rows(products), user, pk)
    IN  /\ response = NoResponse
        /\ IF Raised(obj)
           THEN /\ response' = [kind |-> "notfound", view |-> "update",
                                user |-> user, pk |-> pk, exc |-> obj.exc]
                /\ UNCHANGED products
           ELSE /\ products' = [products EXCEPT ![pk] =
                      [id |-> obj.val.id, user |-> obj.val.user,
                       expiration_date |-> Some(exp),
                       name |-> rest.name, brand |-> rest.brand,
                       category |-> rest.category, shade |-> rest.shade,
                       status |-> rest.status, opened_date |-> rest.opened_date,
                       pao_after_opening |-> rest.pao_after_opening]]
                /\ response' = [kind |-> "redirect", view |-> "update",
                                user |-> user, pk |-> pk]
        /\ UNCHANGED <<today, instance, out, tables, sequences>>

\* POST /pk/delete/, CosmeticProductDeleteView, views.py 174-184: the row of
\* the user with that pk is deleted with its usage logs, or Http404
DeleteRequest(user, pk) ==
    LET obj == get_object(Rows(products), user, pk)
    IN  /\ response = NoResponse
        /\ IF Raised(obj)
           THEN /\ response' = [kind |-> "notfound", view |-> "delete",
                                user |-> user, pk |-> pk, exc |-> obj.exc]
                /\ UNCHANGED <<products, usage_logs>>
           ELSE /\ products' = [products EXCEPT ![pk] = NoRow]
                /\ usage_logs' = usage_logs \ {l \in usage_logs : l.product = pk}
                /\ response' = [kind |-> "redirect", view |-> "delete",
                                user |-> user, pk |-> pk]
        /\ UNCHANGED <<today, instance, out, brands, categories, sequences>>

\* the request is over: its response has gone to the client (requests are
\* handled one at a time, each to completion)
SendResponse ==
    /\ response # NoResponse
    /\ response' = NoResponse
    /\ UNCHANGED <<today, instance, out, products, tables, sequences>>

\* The list requests of Spec carry no page parameter and its collections fit
\* on one page; SpecPage makes the same request with every page parameter.
Next ==
    \/ SendResponse
    \/ \E user \in Users, exp \in FormExpirationDates, rest \in FormRest :
          CreateProduct(user, exp, rest)
    \/ \E user \in Users, st \in StatusParams, cat \in CategoryParams,
          q \in SearchParams :
          ListRequest(user, [status |-> st, category |-> cat, search |-> q,
                             page |-> None])
    \/ \E user \in Users, pk \in 1 .. (MaxProducts + 1) : DetailRequest(user, pk)
    \/ \E user \in Users, pk \in 1 .. (MaxProducts + 1) :
          DetailRequestCheckpoint(user, pk)

Spec == Init /\ [][Next]_vars


\* The application with the update and delete views: products are created,
\* shown, edited and deleted by both users.
NextEdit ==
    \/ SendResponse
    \/ \E user \in Users, exp \in FormExpirationDates, rest \in FormRest :
          CreateProduct(user, exp, rest)
    \/ \E user \in Users, pk \in 1 .. (MaxProducts + 1) : DetailRequest(user, pk)
    \/ \E user \in Users, pk \in 1 .. (MaxProducts + 1),
          exp \in FormExpirationDates, rest \in FormRest :
          UpdateRequest(user, pk, exp, rest)
    \/ \E user \in Users, pk \in 1 .. (MaxProducts + 1) : DeleteRequest(user, pk)

SpecEdit == Init /\ [][NextEdit]_vars

InitCalc ==
    /\ today \in 0 .. MaxDay
    /\ instance \in Instances
    /\ out = NotComputed
    /\ products = [i \in 1 .. MaxProducts |-> NoRow]
    /\ response = NoResponse
    /\ brands = AllBrands /\ categories = AllCategories /\ usage_logs = {}
    /\ sequences = SequencesOf(products, brands, categories)

ComputeExpiration ==
    /\ ~out.done
    /\ out' = Computed(instance, today)
    /\ UNCHANGED <<today, instance, products, response, tables, sequences>>

NextCalc == ComputeExpiration

SpecCalc == InitCalc /\ [][NextCalc]_vars

----------------------------------------------------------------------------
(* The calculator on one instance whose fields stay as they are while the  *)
(* days pass: date.today() moves from day 0 to the day after every         *)
(* expiration date has passed, and the properties are read on each day.    *)

\* the last day of the clock: two days after the latest expiration date
MaxClock == MaxExp + 2

ClockInstances ==
    [expiration_date : Opt(ExpDates),
     status : {"unopened", "opened"},
     opened_date : {None, Some(0 - 40), Some(0)},
     pao_after_opening : {None, Some(1)}]

InitClock ==
    /\ today = 0
    /\ instance \in ClockInstances
    /\ out = NotComputed
    /\ products = [i \in 1 .. MaxProducts |-> NoRow]
    /\ response = NoResponse
    /\ brands = AllBrands /\ categories = AllCategories /\ usage_logs = {}
    /\ sequences = SequencesOf(products, brands, categories)

\* the next day: date.today() is one more, and the properties are read again
AdvanceDay ==
    /\ out.done
    /\ today < MaxClock
    /\ today' = today + 1
    /\ out' = Computed(instance, today + 1)
    /\ UNCHANGED <<instance, products, response, tables, sequences>>

NextClock == ComputeExpiration \/ AdvanceDay

\* days do pass, and the properties are read on each of them
SpecClock ==
    InitClock /\ [][NextClock]_vars
        /\ WF_vars(ComputeExpiration) /\ WF_vars(AdvanceDay)

----------------------------------------------------------------------------
(* The soon tier of one expiration date, asked of the four places that     *)
(* decide it: the list filter, the dashboard count, the manager method and *)
(* the calculator.  The product's effective date is its raw date (no       *)
(* opened_date is stored).                                                 *)

RawDateInstances ==
    [expiration_date : {Some(e) : e \in ExpDates},
     status : OPEN_STATUS,
     opened_date : {None},
     pao_after_opening : {Some(12)}]

\* the instance as a row of the table, owned by user
RowOf(p, id, user) ==
    [id |-> id, user |-> user, expiration_date |-> p.expiration_date,
     name |-> <<"a">>, brand |-> 1, category |-> None, shade |-> <<>>,
     status |-> p.status, opened_date |-> p.opened_date,
     pao_after_opening |-> p.pao_after_opening]

InitTier ==
    /\ today \in 0 .. MaxDay
    /\ instance \in RawDateInstances
    /\ out = NotComputed
    /\ products = [i \in 1 .. MaxProducts |-> NoRow]
    /\ response = NoResponse
    /\ brands = AllBrands /\ categories = AllCategories /\ usage_logs = {}
    /\ sequences = SequencesOf(products, brands, categories)

ClassifySoon ==
    LET row == RowOf(instance, 1, "alice")
    IN  /\ ~out.done
        /\ out' = [done |-> TRUE,
                   at |-> today,
                   list |-> row \in StatusFilter({row}, "soon", today),
                   dashboard |-> get_context_data({row}, "alice", today).soon_count,
                   manager |-> row \in get_soon_expiring_products(
                                          {row}, Some("alice"), today),
                   calculator |-> expiration_status(instance, today)]
        /\ UNCHANGED <<today, instance, products, response, tables, sequences>>

NextTier == ClassifySoon

SpecTier == InitTier /\ [][NextTier]_vars

----------------------------------------------------------------------------
(* The search of the list view over tables of one or two products: the     *)
(* first of any owner, brand, category (or none), name and shade, the      *)
(* second a product of alice.  Each request carries only a search text.    *)

MaxSearchLen == 2

Alphabet == {"a", "A", "b", "B"}
SearchTexts == UNION {[1 .. n -> Alphabet] : n \in 0 .. MaxSearchLen}

SearchNames == { <<"a", "b">>, <<"B">>, <<"a">> }
SearchShades == { <<>>, <<"a", "A">>, <<"B">> }

\* CosmeticProduct.objects.create(...) of a product that expires on day 10
SearchRow(id, user, brand, category, name, shade) ==
    [id |-> id, user |-> user, expiration_date |-> Some(10),
     name |-> name, brand |-> brand, category |-> category, shade |-> shade,
     status |-> "unopened", opened_date |-> None, pao_after_opening |-> Some(12)]

FirstRows ==
    {SearchRow(1, u, b, c, n, s) :
        u \in Users, b \in DOMAIN BrandName,
        c \in Opt(DOMAIN CategoryName), n \in SearchNames, s \in SearchShades}

SecondRows ==
    {NoRow} \cup
    {SearchRow(2, "alice", b, c, <<"a">>, <<>>) :
        b \in DOMAIN BrandName, c \in Opt(DOMAIN CategoryName)}

InitSearch ==
    /\ today = 0
    /\ instance = [expiration_date |-> None, status |-> "unopened",
                   opened_date |-> None, pao_after_opening |-> None]
    /\ out = NotComputed
    /\ \E r1 \in FirstRows, r2 \in SecondRows : products = <<r1, r2>>
    /\ response = NoResponse
    /\ brands = AllBrands /\ categories = AllCategories /\ usage_logs = {}
    /\ sequences = SequencesOf(products, brands, categories)

\* GET /?search=q
SearchRequest(user, q) ==
    ListRequest(user, [status |-> "", category |-> "", search |-> q,
                       page |-> None])

NextSearch ==
    \/ \E user \in Users, q \in SearchTexts : SearchRequest(user, q)
    \/ SendResponse

SpecSearch == InitSearch /\ [][NextSearch]_vars

----------------------------------------------------------------------------
(* Creating and deleting rows of the four tables through the ORM, as the   *)
(* data script and the admin site do.  A created row gets the next id of   *)
(* its table; a delete follows the on_delete rule of every foreign key     *)
(* that points at the deleted row; out holds what the operation returned.  *)

MaxLogs == 2    \* usage log ids the sequence gives out

\* the brand ids and the category ids the sequences give out: as many as
\* there are names, so that every name can be in its table at once and a
\* name deleted before the last id is reached comes back under a new id
MaxBrands == Len(BrandName)
MaxCategories == Len(CategoryName)

\* brand = ForeignKey(Brand, on_delete=models.DO_NOTHING): nothing collected
brand_CASCADE_do_nothing(rows, b) == {}

\* brand = ForeignKey(Brand, on_delete=models.CASCADE), models.py 48 and 232:
\* the product rows deleted with brand b
brand_CASCADE(rows, b) == {r \in rows : r.brand = b}

\* category = ForeignKey(Category, on_delete=models.SET_NULL, null=True),
\* models.py 49 and 233: the product row after category c is deleted
category_SET_NULL(r, c) ==
    IF r # NoRow /\ r.category = Some(c) THEN [r EXCEPT !.category = None] ELSE r

\* product = ForeignKey(CosmeticProduct, on_delete=models.CASCADE),
\* models.py 262: the usage logs deleted with the products of the given ids
product_CASCADE(logs, ids) == {l \in logs : l.product \in ids}

\* what Model.delete() returns: the number of rows deleted, by model
Deleted(nb, nc, np, nl) ==
    [done |-> TRUE, op |-> "delete", total |-> nb + nc + np + nl,
     Brand |-> nb, Category |-> nc, CosmeticProduct |-> np, UsageLog |-> nl]

Created(model, pk, created) ==
    [done |-> TRUE, op |-> "create", model |-> model, pk |-> pk,
     created |-> created]

InitCrud ==
    /\ today = 0
    /\ instance = [expiration_date |-> None, status |-> "unopened",
                   opened_date |-> None, pao_after_opening |-> None]
    /\ out = NotComputed
    /\ products = [i \in 1 .. MaxProducts |-> NoRow]
    /\ response = NoResponse
    /\ brands = {} /\ categories = {} /\ usage_logs = {}
    /\ sequences = SequencesOf(products, brands, categories)

\* Brand.objects.get_or_create(name=BrandName[b]), initial_data.py 19: the
\* row with that name when there is one, else a new row with the next id
CreateBrand(b) ==
    LET found == {r \in brands : r.name = BrandName[b]}
        id == sequences.brand + 1
    IN  /\ IF found # {}
           THEN /\ out' = Created("Brand", (CHOOSE r \in found : TRUE).id, FALSE)
                /\ UNCHANGED <<brands, sequences>>
           ELSE /\ id <= MaxBrands
                /\ brands' = brands \cup {[id |-> id, name |-> BrandName[b]]}
                /\ sequences' = [sequences EXCEPT !.brand = id]
                /\ out' = Created("Brand", id, TRUE)
        /\ UNCHANGED <<today, instance, products, response, categories, usage_logs>>

\* Category.objects.get_or_create(name=CategoryName[c], category_type=...),
\* initial_data.py 35-38: the row with that name when there is one, else a
\* new row with the next id
CreateCategory(c) ==
    LET found == {r \in categories : r.name = CategoryName[c]}
        id == sequences.category + 1
    IN  /\ IF found # {}
           THEN /\ out' = Created("Category", (CHOOSE r \in found : TRUE).id, FALSE)
                /\ UNCHANGED <<categories, sequences>>
           ELSE /\ id <= MaxCategories
                /\ categories' = categories \cup
                                    {[id |-> id, name |-> CategoryName[c]]}
                /\ sequences' = [sequences EXCEPT !.category = id]
                /\ out' = Created("Category", id, TRUE)
        /\ UNCHANGED <<today, instance, products, response, brands, usage_logs>>

\* CosmeticProduct.objects.create(brand=brand, category=category, ...) with
\* a brand and a category (or none) read from their tables
OrmCreateProduct(b, c) ==
    LET id == sequences.product + 1
    IN  /\ id <= MaxProducts
        /\ b \in Pks(brands)
        /\ c \in Opt(Pks(categories))
        /\ products' = [products EXCEPT ![id] =
                            SearchRow(id, "alice", b, c, <<"a">>, <<>>)]
        /\ sequences' = [sequences EXCEPT !.product = id]
        /\ out' = Created("CosmeticProduct", id, TRUE)
        /\ UNCHANGED <<today, instance, response, tables>>

\* UsageLog.objects.create(product=product, notes=...)
CreateUsageLog(p) ==
    LET id == sequences.usage_log + 1
    IN  /\ id <= MaxLogs
        /\ products[p] # NoRow
        /\ usage_logs' = usage_logs \cup {[id |-> id, product |-> p]}
        /\ sequences' = [sequences EXCEPT !.usage_log = id]
        /\ out' = Created("UsageLog", id, TRUE)
        /\ UNCHANGED <<today, instance, products, response, brands, categories>>

\* brand.delete() of the brand with id b: the brand, its products and their
\* usage logs
DeleteBrand(b) ==
    LET gone == brand_CASCADE(Rows(products), b)
        logs == product_CASCADE(usage_logs, {r.id : r \in gone})
    IN  /\ b \in Pks(brands)
        /\ brands' = {r \in brands : r.id # b}
        /\ products' = [i \in DOMAIN products |->
                           IF products[i] \in gone THEN NoRow ELSE products[i]]
        /\ usage_logs' = usage_logs \ logs
        /\ out' = Deleted(1, 0, Cardinality(gone), Cardinality(logs))
        /\ UNCHANGED <<today, instance, response, categories, sequences>>

\* category.delete() of the category with id c: the category; its products
\* are kept without category
DeleteCategory(c) ==
    /\ c \in Pks(categories)
    /\ categories' = {r \in categories : r.id # c}
    /\ products' = [i \in DOMAIN products |-> category_SET_NULL(products[i], c)]
    /\ out' = Deleted(0, 1, 0, 0)
    /\ UNCHANGED <<today, instance, response, brands, usage_logs, sequences>>

\* product.delete(): the product and its usage logs
DeleteProduct(id) ==
    LET logs == product_CASCADE(usage_logs, {id})
    IN  /\ products[id] # NoRow
        /\ products' = [products EXCEPT ![id] = NoRow]
        /\ usage_logs' = usage_logs \ logs
        /\ out' = Deleted(0, 0, 1, Cardinality(logs))
        /\ UNCHANGED <<today, instance, response, brands, categories, sequences>>

\* usage_log.delete()
DeleteUsageLog(id) ==
    /\ \E l \in usage_logs : l.id = id
    /\ usage_logs' = {l \in usage_logs : l.id # id}
    /\ out' = Deleted(0, 0, 0, 1)
    /\ UNCHANGED <<today, instance, products, response, brands, categories, sequences>>

NextCrud ==
    \/ \E b \in DOMAIN BrandName : CreateBrand(b)
    \/ \E c \in DOMAIN CategoryName : CreateCategory(c)
    \/ \E b \in 1 .. MaxBrands, c \in Opt(1 .. MaxCategories) :
          OrmCreateProduct(b, c)
    \/ \E p \in 1 .. MaxProducts : CreateUsageLog(p)
    \/ \E b \in 1 .. MaxBrands : DeleteBrand(b)
    \/ \E c \in 1 .. MaxCategories : DeleteCategory(c)
    \/ \E id \in 1 .. MaxProducts : DeleteProduct(id)
    \/ \E id \in 1 .. MaxLogs : DeleteUsageLog(id)

SpecCrud == InitCrud /\ [][NextCrud]_vars

----------------------------------------------------------------------------
(* The list view over collections of 0 to MaxItems products of alice, asked *)
(* for every page parameter.                                                *)

MaxItems == 21

\* the i-th row of an ordered queryset: expiration dates ascend with i
PageRow(i) ==
    [SearchRow(i, "alice", 1, None, <<"a">>, <<>>) EXCEPT
        !.expiration_date = Some(i)]

InitPage ==
    /\ today = 0
    /\ instance = [expiration_date |-> None, status |-> "unopened",
                   opened_date |-> None, pao_after_opening |-> None]
    /\ out = NotComputed
    /\ \E n \in 0 .. MaxItems : products = [i \in 1 .. n |-> PageRow(i)]
    /\ response = NoResponse
    /\ brands = AllBrands /\ categories = AllCategories /\ usage_logs = {}
    /\ sequences = SequencesOf(products, brands, categories)

\* GET /?page=param: the page of the user's list
PageRequest(param) ==
    ListRequest("alice", [status |-> "", category |-> "", search |-> <<>>,
                          page |-> param])

NextPage ==
    \/ \E param \in PageParams : PageRequest(param)
    \/ SendResponse

SpecPage == InitPage /\ [][NextPage]_vars

----------------------------------------------------------------------------
(* The create and update views of views-checkpoint.py, whose form_valid    *)
(* fills in pao_after_opening, over the model of models-checkpoint.py,     *)
(* where the field is optional (blank=True, null=True).  alice submits     *)
(* forms with every value of the field: none, -1 and 0 to MaxPao.          *)

\* default=12 of the field and of form_valid
DefaultPao == 12

\* the pao_after_opening of the submitted form: None when left empty
SubmittedPao == Opt((0 - 1) .. MaxPao)

\* the form field of a PositiveIntegerField: a number below 0 is an error
PaoIsValid(pao) == IsNone(pao) \/ Val(pao) >= 0

\* if not form.cleaned_data.get('pao_after_opening'):
\*     form.instance.pao_after_opening = 12
form_valid_pao(pao) ==
    IF IsNone(pao) \/ Val(pao) = 0 THEN Some(DefaultPao) ELSE pao

\* the row the form saves
FormRow(id, user, rest, pao) ==
    [id |-> id, user |-> user, expiration_date |-> Some(30),
     name |-> rest.name, brand |-> rest.brand,
     category |-> rest.category, shade |-> rest.shade,
     status |-> rest.status, opened_date |-> rest.opened_date,
     pao_after_opening |-> form_valid_pao(pao)]

\* POST /add/, CosmeticProductCreateView of views-checkpoint.py 179-219
CreateProductCheckpoint(user, rest, pao) ==
    LET id == sequences.product + 1
    IN  /\ response = NoResponse
        /\ IF PaoIsValid(pao)
           THEN /\ id <= MaxProducts
                /\ products' = [products EXCEPT ![id] = FormRow(id, user, rest, pao)]
                /\ sequences' = [sequences EXCEPT !.product = id]
                /\ response' = [kind |-> "redirect", view |-> "create",
                                user |-> user, pk |-> id, pao |-> pao]
           ELSE /\ response' = [kind |-> "form_invalid", view |-> "create",
                                user |-> user, pk |-> 0, pao |-> pao]
                /\ UNCHANGED <<products, sequences>>
        /\ UNCHANGED <<today, instance, out, tables>>

\* POST /pk/edit/, CosmeticProductUpdateView of views-checkpoint.py 221-264
UpdateRequestCheckpoint(user, pk, rest, pao) ==
    LET obj == get_object(Rows(products), user, pk)
    IN  /\ response = NoResponse
        /\ IF Raised(obj)
           THEN /\ response' = [kind |-> "notfound", view |-> "update",
                                user |-> user, pk |-> pk, exc |-> obj.exc]
                /\ UNCHANGED products
           ELSE IF PaoIsValid(pao)
           THEN /\ products' = [products EXCEPT ![pk] =
                                   FormRow(pk, obj.val.user, rest, pao)]
                /\ response' = [kind |-> "redirect", view |-> "update",
                                user |-> user, pk |-> pk, pao |-> pao]
           ELSE /\ response' = [kind |-> "form_invalid", view |-> "update",
                                user |-> user, pk |-> pk, pao |-> pao]
                /\ UNCHANGED products
        /\ UNCHANGED <<today, instance, out, tables, sequences>>

NextForm ==
    \/ \E rest \in FormRest, pao \in SubmittedPao :
          CreateProductCheckpoint("alice", rest, pao)
    \/ \E pk \in 1 .. (MaxProducts + 1), rest \in FormRest, pao \in SubmittedPao :
          UpdateRequestCheckpoint("alice", pk, rest, pao)
    \/ \E pk \in 1 .. (MaxProducts + 1) : DeleteRequest("alice", pk)
    \/ SendResponse

SpecForm == Init /\ [][NextForm]_vars

----------------------------------------------------------------------------
(* The dashboard and the status filter on every day and every expiration   *)
(* date: tables of one or two products, the first of either user, listed   *)
(* with a status value and no other filter.                                *)

\* a product that expires on day e
DashRow(id, user, e) ==
    [SearchRow(id, user, 1, None, <<"a">>, <<>>) EXCEPT
        !.expiration_date = Some(e)]

InitDash ==
    /\ today \in 0 .. MaxDay
    /\ instance = [expiration_date |-> None, status |-> "unopened",
                   opened_date |-> None, pao_after_opening |-> None]
    /\ out = NotComputed
    /\ \E u \in Users, e1 \in ExpDates :
          \/ products = <<DashRow(1, u, e1)>>
          \/ \E e2 \in ExpDates :
                products = <<DashRow(1, u, e1), DashRow(2, "alice", e2)>>
    /\ response = NoResponse
    /\ brands = AllBrands /\ categories = AllCategories /\ usage_logs = {}
    /\ sequences = SequencesOf(products, brands, categories)

\* GET /?status=st
StatusRequest(user, st) ==
    ListRequest(user, [status |-> st, category |-> "", search |-> <<>>,
                       page |-> None])

NextDash ==
    \/ \E user \in Users, st \in StatusParams : StatusRequest(user, st)
    \/ SendResponse

SpecDash == InitDash /\ [][NextDash]_vars

----------------------------------------------------------------------------
(* Properties of the calculator, checked under SpecCalc.                   *)

\* the instance is opened with an opened_date: the branch that applies PAO
PaoBranch == instance.status = "opened" /\ ~IsNone(instance.opened_date)

\* opened_date + pao_after_opening * 30 days, when both are set
PaoExpiry == Val(instance.opened_date) + Val(instance.pao_after_opening) * PaoDays

\* the tier the spec gives to d whole days remaining
TierOfDays(d) ==
    IF d < 0 THEN "expired"
    ELSE IF 0 <= d /\ d <= 7 THEN "urgent"
    ELSE IF 8 <= d /\ d <= 30 THEN "soon"
    ELSE "good"

\* C1: effective_expiration_date is the earlier of expiration_date and
\* opened_date + pao*30 days for an opened product with opened_date and pao
\* set, and expiration_date unchanged for every other product, a missing
\* pao_after_opening included.
C1_EffectiveDate ==
    out.done =>
        IF PaoBranch /\ ~IsNone(instance.pao_after_opening)
        THEN ~IsNone(instance.expiration_date) =>
                /\ ~Raised(out.effective)
                /\ out.effective.val =
                      Some(Min(Val(instance.expiration_date), PaoExpiry))
        ELSE /\ ~Raised(out.effective)
             /\ out.effective.val = instance.expiration_date

\* C2: expiration_status is unknown when the effective date is null, expired
\* when d < 0, urgent when 0 <= d <= 7, soon when 8 <= d <= 30, good when
\* d > 30, d being days_until_expiration; exactly one tier holds.
C2_StatusTiers ==
    (out.done /\ ~Raised(out.days)) =>
        /\ ~Raised(out.status)
        /\ LET d == out.days.val
               st == out.status.val
               isUnknown == IsNone(d)
               isExpired == ~IsNone(d) /\ Val(d) < 0
               isUrgent == ~IsNone(d) /\ 0 <= Val(d) /\ Val(d) <= 7
               isSoon == ~IsNone(d) /\ 8 <= Val(d) /\ Val(d) <= 30
               isGood == ~IsNone(d) /\ Val(d) > 30
           IN  /\ (st = "unknown") <=> isUnknown
               /\ (st = "expired") <=> isExpired
               /\ (st = "urgent") <=> isUrgent
               /\ (st = "soon") <=> isSoon
               /\ (st = "good") <=> isGood
               /\ Cardinality({b \in {<<1, isUnknown>>, <<2, isExpired>>,
                                      <<3, isUrgent>>, <<4, isSoon>>,
                                      <<5, isGood>>} : b[2]}) = 1
               /\ IsNone(d) <=> IsNone(out.effective.val)

C2_Witness ==
    /\ out.done
    /\ ~Raised(out.status)
    /\ out.status.val = "soon"
    /\ out.days.val = Some(8)
    /\ PaoBranch

\* C3: with expiration_date null, whatever the open status, opened_date and
\* pao_after_opening, the status is unknown, days_until_expiration is null,
\* the priority is 5 and nothing raises.
C3_NullExpirationDate ==
    (out.done /\ IsNone(instance.expiration_date)) =>
        /\ ~Raised(out.effective)
        /\ ~Raised(out.days) /\ IsNone(out.days.val)
        /\ ~Raised(out.status) /\ out.status.val = "unknown"
        /\ ~Raised(out.priority) /\ out.priority.val = 5

\* C4: an opened product with opened_date set and pao_after_opening null has
\* no PAO limit: the effective date is the raw expiration_date, days and
\* status derive from it, and nothing raises.
C4_NullPao ==
    (out.done /\ PaoBranch /\ IsNone(instance.pao_after_opening)) =>
        /\ ~Raised(out.effective)
        /\ out.effective.val = instance.expiration_date
        /\ ~Raised(out.days)
        /\ ~Raised(out.status)
        /\ IF IsNone(instance.expiration_date)
           THEN IsNone(out.days.val) /\ out.status.val = "unknown"
           ELSE /\ out.days.val = Some(Val(instance.expiration_date) - out.at)
                /\ out.status.val =
                      TierOfDays(Val(instance.expiration_date) - out.at)

\* C5: an opened product with opened_date + pao*30 days < today <=
\* expiration_date is expired, and days_until_expiration is
\* (opened_date + pao*30 days) - today.
C5_PaoExpired ==
    (/\ out.done
     /\ PaoBranch
     /\ ~IsNone(instance.pao_after_opening)
     /\ ~IsNone(instance.expiration_date)
     /\ PaoExpiry < out.at
     /\ out.at <= Val(instance.expiration_date)) =>
        /\ ~Raised(out.status) /\ out.status.val = "expired"
        /\ ~Raised(out.days) /\ out.days.val = Some(PaoExpiry - out.at)

C5_Witness ==
    /\ out.done
    /\ PaoBranch
    /\ ~IsNone(instance.pao_after_opening)
    /\ instance.opened_date = Some(out.at - 100)
    /\ instance.pao_after_opening = Some(3)
    /\ instance.expiration_date = Some(out.at + 31)
    /\ ~Raised(out.days)
    /\ out.days.val = Some(0 - 10)
    /\ out.status.val = "expired"

\* the status the spec's boundary cases give to the raw expiration_date
BoundaryCases ==
    /\ instance.expiration_date = Some(out.at + 7) =>
          ~Raised(out.status) /\ out.status.val = "urgent"
    /\ instance.expiration_date = Some(out.at + 8) =>
          ~Raised(out.status) /\ out.status.val = "soon"
    /\ instance.expiration_date = Some(out.at + 31) =>
          ~Raised(out.status) /\ out.status.val = "good"

\* C6 as stated: whatever the open status, opened_date and pao_after_opening,
\* expiration_date = today+7 is urgent, today+8 is soon, today+31 is good
\* (stated on the products the calculator returns a status for, so that a
\* violation is a status the code returns and not an exception).
C6_Original == (out.done /\ ~Raised(out.status)) => BoundaryCases

\* C6 amended: the boundary cases hold for every product whose shelf life
\* the PAO rule does not shorten: status not opened, or opened_date missing,
\* or pao set with opened_date + pao*30 days >= expiration_date.
C6_BoundaryCases ==
    (/\ out.done
     /\ ~IsNone(instance.expiration_date)
     /\ \/ ~PaoBranch
        \/ /\ ~IsNone(instance.pao_after_opening)
           /\ PaoExpiry >= Val(instance.expiration_date)) => BoundaryCases

C6_Witness ==
    /\ out.done
    /\ instance.status = "finished"
    /\ ~IsNone(instance.opened_date)
    /\ ~IsNone(instance.pao_after_opening)
    /\ PaoExpiry < out.at
    /\ instance.expiration_date = Some(out.at + 8)
    /\ out.status.val = "soon"

\* C7: an unopened product with expiration_date = today - 1 is expired with
\* days_until_expiration = -1.
C7_ExpiredYesterday ==
    (/\ out.done
     /\ instance.status = "unopened"
     /\ instance.expiration_date = Some(out.at - 1)) =>
        /\ ~Raised(out.status) /\ out.status.val = "expired"
        /\ ~Raised(out.days) /\ out.days.val = Some(0 - 1)

C7_Witness ==
    /\ out.done
    /\ instance.status = "unopened"
    /\ instance.expiration_date = Some(out.at - 1)
    /\ ~IsNone(instance.opened_date)
    /\ out.status.val = "expired"

\* C8: expiration_priority is expired=1, urgent=2, soon=3, good=4,
\* unknown=5 of the product's status, so a product with more days remaining
\* never gets a smaller priority than one with fewer days remaining.
C8_Priority ==
    (out.done /\ ~Raised(out.status)) =>
        /\ ~Raised(out.priority)
        /\ out.status.val = "expired" => out.priority.val = 1
        /\ out.status.val = "urgent" => out.priority.val = 2
        /\ out.status.val = "soon" => out.priority.val = 3
        /\ out.status.val = "good" => out.priority.val = 4
        /\ out.status.val = "unknown" => out.priority.val = 5
        /\ \A e \in ExpDates :
              LET q == [expiration_date |-> Some(e), status |-> "unopened",
                        opened_date |-> None, pao_after_opening |-> None]
              IN  (~IsNone(out.days.val) /\ e - out.at > Val(out.days.val)) =>
                      expiration_priority(q, out.at).val >= out.priority.val

C8_Witness ==
    /\ out.done
    /\ ~Raised(out.priority)
    /\ out.status.val = "soon"
    /\ out.priority.val = 3
    /\ out.days.val = Some(30)

----------------------------------------------------------------------------
(* Properties of the product list query, checked under Spec.               *)

\* the rows of a list response, as a set
ListedRows == {response.queryset[i] : i \in DOMAIN response.queryset}

\* the date range the spec gives to a status tier, on expiration date e
TierRange(tier, e, t) ==
    CASE tier = "expired" -> e < t
      [] tier = "urgent" -> t <= e /\ e <= t + 7
      [] tier = "soon" -> t + 8 <= e /\ e <= t + 30
      [] tier = "good" -> e > t + 30

\* C9: whatever the status, category and search values of the request, the
\* product list holds only rows of the table whose owner is the requesting
\* user.
C9_OwnProductsOnly ==
    response.kind = "list" =>
        \A r \in ListedRows : r \in Rows(products) /\ r.user = response.user

C9_Witness ==
    /\ response.kind = "list"
    /\ response.GET.status # ""
    /\ response.GET.category # ""
    /\ response.GET.search # <<>>
    /\ ListedRows # {}
    /\ \E r \in Rows(products) :
          /\ r.user # response.user
          /\ r \in get_queryset(Rows(products), r.user, response.GET,
                                response.at).val

\* C10: the status filter of the list selects on the raw expiration_date:
\* every listed row is in the date range of the requested tier (expired:
\* < today; urgent: today..today+7; soon: today+8..today+30; good:
\* > today+30), and with no category and no search value the list is
\* exactly the user's rows in that range, whatever their PAO-adjusted date.
C10_StatusFilterOnRawDate ==
    (response.kind = "list"
        /\ response.GET.status \in {"expired", "urgent", "soon", "good"}) =>
        /\ \A r \in ListedRows :
              TierRange(response.GET.status, Val(r.expiration_date), response.at)
        /\ (response.GET.category = "" /\ response.GET.search = <<>>) =>
              ListedRows =
                  {r \in Rows(products) :
                      /\ r.user = response.user
                      /\ TierRange(response.GET.status, Val(r.expiration_date),
                                   response.at)}

C10_Witness ==
    /\ response.kind = "list"
    /\ response.GET = [status |-> "good", category |-> "", search |-> <<>>,
                      page |-> None]
    /\ \E r \in ListedRows :
          /\ r.status = "opened"
          /\ Val(effective_expiration_date(r).val) < response.at
    /\ \E r \in Rows(products) : r.user = response.user /\ r \notin ListedRows

----------------------------------------------------------------------------
(* The soon tier's lower boundary, checked under SpecTier.                 *)

\* C11: for every whole-day expiration_date and every today, the list
\* filter (expiration_date > today+7), the dashboard soon_count, the manager
\* method get_soon_expiring_products (expiration_date >= today+8) and the
\* calculator on the raw date agree on whether the date is in the soon tier.
C11_SoonBoundaryUniform ==
    out.done =>
        /\ ~Raised(out.calculator)
        /\ out.list <=> (out.dashboard = 1)
        /\ out.list <=> out.manager
        /\ out.list <=> (out.calculator.val = "soon")

C11_Witness ==
    /\ out.done
    /\ instance.expiration_date = Some(out.at + 8)
    /\ out.list
    /\ out.manager
    /\ out.dashboard = 1
    /\ out.calculator.val = "soon"

----------------------------------------------------------------------------
(* The order of the product list, checked under Spec.                      *)

\* the code point of a character
CharCode(ch) ==
    CASE ch = "A" -> 65 [] ch = "B" -> 66 [] ch = "a" -> 97 [] ch = "b" -> 98

\* s sorts before t, or is t
TextLeq(s, t) ==
    \/ /\ Len(s) <= Len(t)
       /\ \A k \in 1 .. Len(s) : s[k] = t[k]
    \/ \E k \in 1 .. Min(Len(s), Len(t)) :
          /\ \A h \in 1 .. (k - 1) : s[h] = t[h]
          /\ CharCode(s[k]) < CharCode(t[k])

\* row a is not after row b by (expiration_date, brand, name)
KeyLeq(a, b) ==
    LET ea == Val(a.expiration_date)
        eb == Val(b.expiration_date)
    IN  \/ ea < eb
        \/ /\ ea = eb
           /\ \/ BrandName[a.brand] # BrandName[b.brand]
                    /\ TextLeq(BrandName[a.brand], BrandName[b.brand])
              \/ BrandName[a.brand] = BrandName[b.brand]
                    /\ TextLeq(a.name, b.name)

\* C12 as stated: the list ascends in expiration_date, and rows with equal
\* expiration_date are ordered by brand and then by name.
C12_Original ==
    response.kind = "list" =>
        \A i, j \in DOMAIN response.queryset :
            i < j => KeyLeq(response.queryset[i], response.queryset[j])

\* C12 amended: the list ascends in expiration_date (soonest first); the
\* order of rows with equal expiration_date is not fixed by brand or name.
C12_AscendingExpirationDate ==
    response.kind = "list" =>
        \A i, j \in DOMAIN response.queryset :
            i < j => Val(response.queryset[i].expiration_date)
                        <= Val(response.queryset[j].expiration_date)

C12_Witness ==
    /\ response.kind = "list"
    /\ Len(response.queryset) = 2
    /\ response.queryset[1].id = 2
    /\ Val(response.queryset[1].expiration_date)
          < Val(response.queryset[2].expiration_date)

----------------------------------------------------------------------------
(* The dashboard counts, checked under Spec.                               *)

\* the rows of the table owned by the user of the response
OwnRows == {r \in Rows(products) : r.user = response.user}

\* how many of the user's rows are in a tier on their expiration_date
TierCount(tier) ==
    Cardinality({r \in OwnRows :
                    TierRange(tier, Val(r.expiration_date), response.at)})

\* C13: the counts rendered with the list are those of the requesting user's
\* whole collection on the day of the request, whatever the status, category
\* and search values of the request: they depend on nothing in the filter
\* spec and count no row of another user.
C13_DashboardCounts ==
    response.kind = "list" =>
        /\ response.counts.expired_count = TierCount("expired")
        /\ response.counts.urgent_count = TierCount("urgent")
        /\ response.counts.soon_count = TierCount("soon")
        /\ response.counts.good_count = TierCount("good")
        /\ response.counts.total_count = Cardinality(OwnRows)

C13_Witness ==
    /\ response.kind = "list"
    /\ response.GET.status = "good" /\ response.GET.search # <<>>
    /\ response.queryset = <<>>
    /\ response.counts.total_count = 1
    /\ response.counts.urgent_count = 1
    /\ Cardinality(Rows(products)) = 2

----------------------------------------------------------------------------
(* The category filter, checked under Spec.                                *)

\* the text of a category id in the query string
IdText(k) == CASE k = 1 -> "1" [] k = 2 -> "2"

\* C14 as stated: a request with a category value never fails; a value that
\* names no category (a missing id, or text that is not an id) lists nothing,
\* and the id of a category lists, when there is no other filter, exactly
\* the user's rows of that category.
C14_CategoryFilter ==
    (response.kind \in {"list", "error"} /\ response.GET.category # "") =>
        /\ response.kind = "list"
        /\ \A r \in ListedRows :
              \E k \in DOMAIN CategoryName :
                  r.category = Some(k) /\ response.GET.category = IdText(k)
        /\ (response.GET.status = "" /\ response.GET.search = <<>>) =>
              \A r \in OwnRows :
                  (\E k \in DOMAIN CategoryName :
                      r.category = Some(k) /\ response.GET.category = IdText(k))
                  => r \in ListedRows

----------------------------------------------------------------------------
(* Filter values that are missing, empty or unrecognised, under Spec.      *)

Tiers == {"expired", "urgent", "soon", "good"}

\* two characters that differ at most in case
SameLetter(a, b) ==
    \/ a = b
    \/ {a, b} = {"a", "A"}
    \/ {a, b} = {"b", "B"}

\* q occurs in text at some offset, letter case ignored
OccursIn(q, text) ==
    \E off \in 0 .. (Len(text) - Len(q)) :
        \A k \in 1 .. Len(q) : SameLetter(text[off + k], q[k])

\* what each filter of the spec asks of a row
StatusMatch(r, s, t) == s \in Tiers => TierRange(s, Val(r.expiration_date), t)
CategoryMatch(r, c) ==
    c # "" => \E k \in DOMAIN CategoryName : r.category = Some(k) /\ c = IdText(k)
SearchMatch(r, q) ==
    q # <<>> =>
        \/ OccursIn(q, r.name)
        \/ OccursIn(q, BrandName[r.brand])
        \/ \E k \in DOMAIN CategoryName :
              r.category = Some(k) /\ OccursIn(q, CategoryName[k])
        \/ OccursIn(q, r.shade)

\* C15: a status value that names no tier ('unknown' included), an empty
\* category and an empty search each leave the result unrestricted by that
\* filter and are never rejected; with no filter at all the list is every
\* row of the user, in ascending expiration_date order.
C15_NoFilter ==
    LET G == response.GET
    IN  /\ response.kind = "error" => G.category # ""
        /\ response.kind = "list" =>
              /\ G.status \notin Tiers =>
                    ListedRows = {r \in OwnRows : CategoryMatch(r, G.category)
                                                  /\ SearchMatch(r, G.search)}
              /\ G.category = "" =>
                    ListedRows = {r \in OwnRows :
                                     StatusMatch(r, G.status, response.at)
                                     /\ SearchMatch(r, G.search)}
              /\ G.search = <<>> =>
                    ListedRows = {r \in OwnRows :
                                     StatusMatch(r, G.status, response.at)
                                     /\ CategoryMatch(r, G.category)}
              /\ (G.status \notin Tiers /\ G.category = "" /\ G.search = <<>>) =>
                    /\ ListedRows = OwnRows
                    /\ Len(response.queryset) = Cardinality(OwnRows)
                    /\ \A i, j \in DOMAIN response.queryset :
                          i < j => Val(response.queryset[i].expiration_date)
                                      <= Val(response.queryset[j].expiration_date)

C15_Witness ==
    /\ response.kind = "list"
    /\ response.GET = [status |-> "unknown", category |-> "", search |-> <<>>,
                      page |-> None]
    /\ Len(response.queryset) = 2
    /\ Val(response.queryset[1].expiration_date) < response.at
    /\ Val(response.queryset[2].expiration_date) > response.at + 30

----------------------------------------------------------------------------
(* The search filter, checked under SpecSearch.                            *)

\* C16: with a search text, the list holds exactly the user's rows in which
\* the text occurs, letter case ignored, in the product name, the brand
\* name, the category name or the shade; a row without a category is kept
\* when the text occurs in its name, brand name or shade.
C16_SearchFilter ==
    (response.kind = "list" /\ response.GET.search # <<>>) =>
        \A r \in OwnRows :
            r \in ListedRows <=>
                \/ OccursIn(response.GET.search, r.name)
                \/ OccursIn(response.GET.search, BrandName[r.brand])
                \/ /\ r.category # None
                   /\ OccursIn(response.GET.search, CategoryName[Val(r.category)])
                \/ OccursIn(response.GET.search, r.shade)

\* a row without category is listed for a text of the other case that
\* occurs only in its shade
C16_Witness ==
    /\ response.kind = "list"
    /\ response.GET.search = <<"A", "a">>
    /\ \E i \in DOMAIN response.queryset :
          /\ response.queryset[i].category = None
          /\ response.queryset[i].shade = <<"a", "A">>
          /\ response.queryset[i].name = <<"B">>
          /\ response.queryset[i].brand = 2

\* the search text is the exact name of brand b
SearchIsBrand(b) ==
    response.kind = "list" /\ response.GET.search = BrandName[b]

\* C17 as stated: a search for the exact name of a brand lists exactly the
\* user's products of that brand.
C17_Original ==
    \A b \in DOMAIN BrandName :
        SearchIsBrand(b) => ListedRows = {r \in OwnRows : r.brand = b}

\* C17 amended: a search for the exact name of a brand lists every product
\* of the user of that brand; a product of another brand is listed as well
\* exactly when the text occurs in its name, brand name, category name or
\* shade.
C17_BrandProductsListed ==
    \A b \in DOMAIN BrandName :
        SearchIsBrand(b) =>
            /\ {r \in OwnRows : r.brand = b} \subseteq ListedRows
            /\ \A r \in OwnRows :
                  r.brand # b =>
                      (r \in ListedRows <=> SearchMatch(r, response.GET.search))

\* both products of brand 'b' are listed for the text 'b', one of them
\* without category and with no other field that holds the text
C17_Witness ==
    /\ SearchIsBrand(2)
    /\ Len(response.queryset) = 2
    /\ \A i \in DOMAIN response.queryset : response.queryset[i].brand = 2
    /\ \E i \in DOMAIN response.queryset :
          /\ response.queryset[i].category = None
          /\ response.queryset[i].name = <<"a">>
          /\ response.queryset[i].shade = <<>>

----------------------------------------------------------------------------
(* The detail view, checked under Spec.                                    *)

\* the detail page was rendered with a status and a number of days in its
\* context
DetailWithStatus ==
    /\ response.kind = "detail"
    /\ "expiration_status" \in DOMAIN response.context

\* C19 as stated: the expiration_status and days_until_expiration in the
\* context of the detail view are the calculator's for the product shown.
C19_DetailUsesCalculator ==
    DetailWithStatus =>
        LET product == response.context.product
        IN  /\ Ok(response.context.expiration_status)
                  = expiration_status(product, response.at)
            /\ Ok(response.context.days_until_expiration)
                  = days_until_expiration(product, response.at)

----------------------------------------------------------------------------
(* Referential integrity, checked under SpecCrud.                          *)

\* every reference of a row is to a row that is in its table
Integrity ==
    /\ \A r \in Rows(products) :
          /\ \E b \in brands : b.id = r.brand
          /\ r.category # None => \E c \in categories : c.id = Val(r.category)
    /\ \A l \in usage_logs : \E r \in Rows(products) : r.id = l.product

\* the ids of the product rows of a table
Ids(table) == {r.id : r \in Rows(table)}

\* a step that deletes a brand deletes exactly its products and exactly
\* their usage logs
BrandDeleteStep ==
    \A b \in brands \ brands' :
        /\ Rows(products') = {r \in Rows(products) : r.brand # b.id}
        /\ usage_logs' = {l \in usage_logs :
                             \E r \in Rows(products') : r.id = l.product}

\* a step that deletes a product deletes exactly the usage logs of the
\* deleted products
ProductDeleteStep ==
    Ids(products) \ Ids(products') # {} =>
        usage_logs' = {l \in usage_logs : l.product \in Ids(products')}

\* a step that deletes a category deletes no product and no usage log, and
\* changes only the category of the products that referenced it, to null
CategoryDeleteStep ==
    \A c \in categories \ categories' :
        /\ usage_logs' = usage_logs
        /\ \A i \in DOMAIN products :
              products'[i] =
                  IF products[i] # NoRow /\ products[i].category = Some(c.id)
                  THEN [products[i] EXCEPT !.category = None]
                  ELSE products[i]

\* C20: in every reachable state no product references a brand or category
\* that is not in its table and no usage log references a product that is
\* not in the table; a brand's deletion deletes its products and their usage
\* logs, a product's deletion deletes its usage logs, and a category's
\* deletion deletes no product and sets the category of each product that
\* referenced it to null.
C20_ReferentialIntegrity ==
    /\ []Integrity
    /\ [][BrandDeleteStep /\ ProductDeleteStep /\ CategoryDeleteStep]_vars

\* a brand was deleted with one product and its usage log, while a product
\* of the other brand, which has lost its category, and its usage log stay
C20_Witness ==
    /\ out.done /\ out.op = "delete"
    /\ out.Brand = 1 /\ out.CosmeticProduct = 1 /\ out.UsageLog = 1
    /\ Cardinality(brands) = 1
    /\ Cardinality(usage_logs) = 1
    /\ \E r \in Rows(products) : r.category = None
    /\ Cardinality(categories) = 1

----------------------------------------------------------------------------
(* Requests for one product, checked under SpecEdit.                       *)

\* the response answers a detail, update or delete request
ForOneProduct(r) ==
    /\ r.kind \in {"detail", "notfound", "redirect"}
    /\ r.view \in {"detail", "update", "delete"}

\* user owns a row with primary key pk in the table
OwnsRow(table, user, pk) ==
    \E r \in Rows(table) : r.id = pk /\ r.user = user

\* C21: a detail, update or delete request for a primary key that no row
\* has, or that a row of another user has, ends in not-found, and the step
\* leaves the product table and the usage logs as they were.
C21_NotFound ==
    [][(/\ response = NoResponse
        /\ response' # NoResponse
        /\ ForOneProduct(response')
        /\ ~OwnsRow(products, response'.user, response'.pk))
       => (/\ response'.kind = "notfound"
           /\ products' = products
           /\ usage_logs' = usage_logs)]_vars

\* bob's delete request for a product of alice was answered not-found and
\* the product is in the table
C21_Witness ==
    /\ response.kind = "notfound"
    /\ response.view = "delete"
    /\ response.user = "bob"
    /\ OwnsRow(products, "alice", response.pk)

----------------------------------------------------------------------------
(* Pagination, checked under SpecPage.                                     *)

\* the number of the last page of a list of count rows: the least k >= 1
\* with k pages of ten holding them all
LastPage(count) ==
    CHOOSE k \in 1 .. (count + 1) :
        /\ k * 10 >= count
        /\ \A h \in 1 .. (k - 1) : h * 10 < count

\* the page number the request asks for, when it is an integer
AskedPage(param) ==
    IF param \in {Some("-1")} THEN Some(0 - 1)
    ELSE IF param = Some("0") THEN Some(0)
    ELSE IF param = Some("1") THEN Some(1)
    ELSE IF param = Some("2") THEN Some(2)
    ELSE IF param = Some("3") THEN Some(3)
    ELSE IF param = Some("4") THEN Some(4)
    ELSE None

\* C22: paginate_queryset never fails on the page parameter; the page it
\* returns has a number in 1..num_pages and at most 10 rows, the rows of
\* that page in order: page 1 for a missing or non-integer parameter, the
\* asked page when it exists, and the last page when the asked number is
\* out of range (0, negative, beyond the last page).
C22_Pagination ==
    response # NoResponse =>
        /\ response.kind = "list"
        /\ LET last == LastPage(Len(products))
               asked == AskedPage(response.GET.page)
           IN  /\ response.number \in 1 .. last
               /\ response.num_pages = last
               /\ Len(response.items) <= 10
               /\ \A i \in DOMAIN response.items :
                     response.items[i] = products[(response.number - 1) * 10 + i]
               /\ Len(response.items)
                     = (IF response.number < last THEN 10
                        ELSE Len(products) - (last - 1) * 10)
               /\ asked = None => response.number = 1
               /\ (asked # None /\ Val(asked) \in 1 .. last) =>
                     response.number = Val(asked)
               /\ (asked # None /\ Val(asked) \notin 1 .. last) =>
                     response.number = last

\* page 4 of 21 rows was asked: the third and last page, of one row
C22_Witness ==
    /\ response.kind = "list"
    /\ response.GET.page = Some("4")
    /\ Len(products) = 21
    /\ response.number = 3
    /\ response.items = <<products[21]>>
    /\ response.is_paginated

----------------------------------------------------------------------------
(* The default of pao_after_opening, checked under SpecForm.               *)

\* C23 as stated: after a successful create or update the stored
\* pao_after_opening is 12 when the form left it empty and the submitted
\* number otherwise, so it is never null.
C23_PaoDefault ==
    (response.kind = "redirect" /\ response.view \in {"create", "update"}) =>
        LET stored == products[response.pk].pao_after_opening
        IN  /\ stored # None
            /\ stored = (IF response.pao = None THEN Some(12) ELSE response.pao)

----------------------------------------------------------------------------
(* The tiers as a partition, checked under SpecDash.                       *)

\* the tiers whose list filter selects row r on day t
FilterTiers(r, t) == {T \in Tiers : r \in StatusFilter({r}, T, t)}

\* the tiers whose manager method returns row r on day t
ManagerTiers(r, t) ==
    {T \in Tiers :
        r \in (CASE T = "expired" -> get_expired_products({r}, None, t)
                 [] T = "urgent" -> get_urgent_products({r}, None, t)
                 [] T = "soon" -> get_soon_expiring_products({r}, None, t)
                 [] T = "good" -> get_good_products({r}, None, t))}

\* C24: on every day each product of the user is in exactly one of the four
\* tiers, by the date predicates of the list view and by those of the
\* manager, and the four dashboard counts add up to total_count.
C24_TiersPartition ==
    response.kind = "list" =>
        /\ \A r \in OwnRows :
              /\ Cardinality(FilterTiers(r, response.at)) = 1
              /\ Cardinality(ManagerTiers(r, response.at)) = 1
        /\ response.counts.expired_count + response.counts.urgent_count
              + response.counts.soon_count + response.counts.good_count
              = response.counts.total_count

\* two products of the user on the two sides of the urgent/soon boundary of
\* day 1
C24_Witness ==
    /\ response.kind = "list"
    /\ response.at = 1
    /\ response.counts.urgent_count = 1
    /\ response.counts.soon_count = 1
    /\ response.counts.total_count = 2
    /\ \E r \in OwnRows : r.expiration_date = Some(8)
    /\ \E r \in OwnRows : r.expiration_date = Some(9)

\* C25: the list filtered by one tier alone has as many rows as the
\* dashboard counts for that tier, for the same user on the same day.
C25_CountIsFilteredList ==
    (response.kind = "list" /\ response.GET.status \in Tiers) =>
        Len(response.queryset) =
            (CASE response.GET.status = "expired" -> response.counts.expired_count
               [] response.GET.status = "urgent" -> response.counts.urgent_count
               [] response.GET.status = "soon" -> response.counts.soon_count
               [] response.GET.status = "good" -> response.counts.good_count)

\* the soon list of day 1 holds the product of day 9 and not that of day 8
C25_Witness ==
    /\ response.kind = "list"
    /\ response.GET.status = "soon"
    /\ response.at = 1
    /\ Len(response.queryset) = 1
    /\ response.queryset[1].expiration_date = Some(9)
    /\ response.counts.soon_count = 1
    /\ response.counts.urgent_count = 1

----------------------------------------------------------------------------
(* The calculator against the raw-date tier, is_expired and the template   *)
(* filter, checked under SpecCalc.                                         *)

\* the tier whose list filter selects the instance on the day of out
RawTier ==
    CHOOSE T \in Tiers : TierRange(T, Val(instance.expiration_date), out.at)

\* C26 as stated: for every product with an expiration_date the effective
\* date is not after the expiration_date and the calculator's priority is
\* not above that of the raw-date tier; for a product that is not opened
\* with an opened_date the calculator's tier is the raw-date tier.
C26_NeverLessUrgent ==
    (out.done /\ instance.expiration_date # None) =>
        /\ ~Raised(out.effective)
        /\ Val(out.effective.val) <= Val(instance.expiration_date)
        /\ out.priority.val <= status_priority[RawTier]
        /\ ~PaoBranch => out.status.val = RawTier

----------------------------------------------------------------------------
(* The tier as the days pass, checked under SpecClock.                     *)

\* from one day to the next the priority of a product with an
\* expiration_date does not increase
PriorityStep ==
    (out.done /\ out'.done /\ instance.expiration_date # None) =>
        /\ ~Raised(out.priority) /\ ~Raised(out'.priority)
        /\ out'.priority.val <= out.priority.val

\* the product with an expiration_date is expired
IsExpiredTier ==
    instance.expiration_date # None => (out.done /\ out.status = Ok("expired"))

\* C27 as stated: with the fields fixed and today advancing day by day, the
\* priority never increases, and a product with an expiration_date is
\* eventually expired and expired on all later days.
C27_MonotoneToExpired ==
    /\ [][PriorityStep]_vars
    /\ <>[]IsExpiredTier

----------------------------------------------------------------------------
(* is_expired and the template filter, checked under SpecCalc.             *)

\* C28 as stated: for every product with an expiration_date, whatever its
\* status, opened_date and pao, is_expired is true exactly when
\* expiration_status is expired; with a null expiration_date is_expired is
\* false.
C28_IsExpiredAgrees ==
    out.done =>
        /\ ~Raised(out.is_expired)
        /\ instance.expiration_date = None => out.is_expired.val = FALSE
        /\ instance.expiration_date # None =>
              /\ ~Raised(out.status)
              /\ out.is_expired.val <=> (out.status.val = "expired")

\* C29: applied to the product's days_until_expiration, a negative, zero or
\* positive number of days or None, get_expiry_status gives the tier that
\* expiration_status gives.
C29_FilterAgrees ==
    (out.done /\ ~Raised(out.days)) =>
        /\ ~Raised(out.badge) /\ ~Raised(out.status)
        /\ out.badge.val = out.status.val

\* the filter was applied to a negative number of days, to 0, 7, 8, 30 and
\* 31 days and to None on some instance; this one is the PAO-shortened -10
C29_Witness ==
    /\ out.done
    /\ out.days = Ok(Some(0 - 10))
    /\ Val(instance.expiration_date) = 31
    /\ out.badge = Ok("expired")

----------------------------------------------------------------------------
(* The owner of a product, checked under SpecEdit.                         *)

\* C30: in every step a product that stays in the table keeps its owner, a
\* product that enters the table is owned by the user of the create
\* request, and a product that is added, changed or removed is owned by the
\* user whose request the step serves.
C30_OwnerFixed ==
    [][\A i \in DOMAIN products :
          /\ (products[i] # NoRow /\ products'[i] # NoRow) =>
                products'[i].user = products[i].user
          /\ (products[i] = NoRow /\ products'[i] # NoRow) =>
                /\ response'.view = "create"
                /\ products'[i].user = response'.user
          /\ products'[i] # products[i] =>
                /\ products[i] # NoRow => products[i].user = response'.user
                /\ products'[i] # NoRow => products'[i].user = response'.user
      ]_vars

\* bob has edited his product while a product of alice is in the table
C30_Witness ==
    /\ response.kind = "redirect"
    /\ response.view = "update"
    /\ response.user = "bob"
    /\ products[response.pk].user = "bob"
    /\ \E r \in Rows(products) : r.user = "alice"

====
